---- MODULE Spec2Model ----
(***************************************************************************)
(* Model of the COSE474 exercises:                                         *)
(*   hw4.py  view_as_windows, nn_convolutional_layer, nn_max_pooling_layer *)
(*   hw7.py  MultiHeadAttention, TF_Encoder_Block, TF_Encoder              *)
(*                                                                         *)
(* A tensor is a record [data, offset, shape, stride]: `data` is the       *)
(* backing storage (a sequence), and element idx (0-based indices) is      *)
(* data[offset + sum idx[d]*stride[d] + 1], exactly torch's layout.        *)
(***************************************************************************)
EXTENDS Integers, Sequences, FiniteSets, TLC

VARIABLES
    call,   \* the operation called and its arguments
    ret,    \* what the call returned or raised (None while it runs)
    pc,     \* TF_Encoder.forward: the statement reached
    enc_x,  \* TF_Encoder.forward: local x
    enc_out, \* TF_Encoder.forward: local out
    enc_it, \* TF_Encoder.forward: index of the next encoder layer of the loop
    trace,  \* the encoder blocks invoked so far: layer, input, lengths, output
    heap,   \* tensor storages of the layer scenario, by storage id
    cnv,    \* the nn_convolutional_layer object
    mpl,    \* the nn_max_pooling_layer object
    held    \* the tensors the caller holds

encvars == <<pc, enc_x, enc_out, enc_it, trace>>
layervars == <<heap, cnv, mpl, held>>
vars == <<call, ret, encvars, layervars>>

None == [none |-> TRUE]

\* Bounds of the explored inputs.
MaxRank == 4
MaxExt == 5
MaxNumel == 6
MaxStep == 2
MaxBatch == 2
MaxCh == 2
MaxHW == 3
MaxSeqLen == 3
MaxDModel == 2
MaxHeads == 2
MaxLayers == 3
MaxOps == 4
MaxAbs == 3

(***************************************************************************)
(* Tensor arithmetic shared by every operation.                            *)
(***************************************************************************)
RECURSIVE Prod(_)
Prod(s) == IF s = <<>> THEN 1 ELSE s[1] * Prod(Tail(s))

RECURSIVE Dot(_, _)
Dot(a, b) == IF a = <<>> THEN 0 ELSE a[1] * b[1] + Dot(Tail(a), Tail(b))

Repeat(v, n) == [d \in 1..n |-> v]

Max2(a, b) == IF a >= b THEN a ELSE b

\* torch's strides of a freshly allocated (contiguous) tensor of this shape:
\* stride[d] = product of max(size, 1) over the later dimensions.
ContigStrides(shape) ==
    [d \in 1..Len(shape) |->
        Prod([e \in 1..(Len(shape) - d) |-> Max2(shape[d + e], 1)])]

Numel(t) == Prod(t.shape)

\* All 0-based index tuples of a shape, in no particular order.
RECURSIVE IdxSet(_)
IdxSet(shape) ==
    IF shape = <<>> THEN {<<>>}
    ELSE {<<i>> \o r : i \in 0..(shape[1] - 1), r \in IdxSet(Tail(shape))}

\* The index tuple of the k-th element (0-based) in row-major order.
RECURSIVE Unravel(_, _)
Unravel(k, shape) ==
    IF shape = <<>> THEN <<>>
    ELSE LET rest == Prod(Tail(shape))
         IN <<k \div rest>> \o Unravel(k % rest, Tail(shape))

Elem(t, idx) == t.data[t.offset + Dot(idx, t.stride) + 1]

Tensor(data, shape) ==
    [data |-> data, offset |-> 0, shape |-> shape, stride |-> ContigStrides(shape)]

\* The elements of a (possibly strided) tensor in row-major logical order.
Flatten(t) == [k \in 1..Numel(t) |-> Elem(t, Unravel(k - 1, t.shape))]

(***************************************************************************)
(* hw4.py: view_as_windows                                                 *)
(***************************************************************************)
\* A Python argument that is a number or a tuple: [num, v], a number n being
\* kept as the one-element sequence <<n>>.
Num(n) == [num |-> TRUE, v |-> <<n>>]
Tup(t) == [num |-> FALSE, v |-> t]

Raise(exc, msg) == [exc |-> exc, msg |-> msg, value |-> None]
Return(v) == [exc |-> "none", msg |-> "", value |-> v]

\* arr_in[slices] with slices = (slice(None, None, st) for st in step): torch
\* rejects a step that is not positive with ValueError; otherwise dimension d
\* keeps ceil(n/st) elements and its stride is multiplied by st.
SliceSteps(t, step) ==
    IF \E d \in 1..Len(step) : step[d] < 1
    THEN Raise("ValueError", "step must be greater than zero")
    ELSE Return([data |-> t.data, offset |-> t.offset,
                 shape |-> [d \in 1..Len(step) |->
                               (t.shape[d] + step[d] - 1) \div step[d]],
                 stride |-> [d \in 1..Len(step) |-> t.stride[d] * step[d]]])

\* torch.as_strided(arr_in, size, stride): same storage and storage offset.
as_strided(t, size, stride) ==
    [data |-> t.data, offset |-> t.offset, shape |-> size, stride |-> stride]

\* A plausible slip: the window-too-small check is missing.
TooSmall_never(window_shape) == FALSE

TooSmall(window_shape) == \E d \in 1..Len(window_shape) : window_shape[d] - 1 < 0

\* A plausible slip: the position count rounded up instead of down.
WinIndicesShape_ceil(arr_shape, window_shape, step) ==
    [d \in 1..Len(arr_shape) |->
        ((arr_shape[d] - window_shape[d] + step[d] - 1) \div step[d]) + 1]

\* torch.div(arr_shape - window_shape, step, rounding_mode='floor') + 1
WinIndicesShape(arr_shape, window_shape, step) ==
    [d \in 1..Len(arr_shape) |->
        ((arr_shape[d] - window_shape[d]) \div step[d]) + 1]

\* torch.is_tensor: the value is a tensor record.
is_tensor(x) == DOMAIN x = {"data", "offset", "shape", "stride"}

view_as_windows(arr_in, window_shape_arg, step_arg) ==
    IF ~is_tensor(arr_in)
    THEN Raise("TypeError", "arr_in must be a pytorch tensor")
    ELSE
    LET ndim == Len(arr_in.shape)
        window_shape == IF window_shape_arg.num
                        THEN Repeat(window_shape_arg.v[1], ndim)
                        ELSE window_shape_arg.v
    IN
    IF ~(Len(window_shape) = ndim)
    THEN Raise("ValueError", "window_shape is incompatible with arr_in.shape")
    ELSE IF step_arg.num /\ step_arg.v[1] < 1
    THEN Raise("ValueError", "step must be >= 1")
    ELSE
    LET step == IF step_arg.num THEN Repeat(step_arg.v[1], ndim) ELSE step_arg.v
        arr_shape == arr_in.shape
    IN
    IF Len(step) # ndim
    THEN Raise("ValueError", "step is incompatible with arr_in.shape")
    ELSE IF \E d \in 1..ndim : arr_shape[d] - window_shape[d] < 0
    THEN Raise("ValueError", "window_shape is too large")
    ELSE IF TooSmall(window_shape)
    THEN Raise("ValueError", "window_shape is too small")
    ELSE
    LET sliced == SliceSteps(arr_in, step)
    IN
    IF sliced.exc # "none" THEN sliced
    ELSE
    LET window_strides == arr_in.stride
        indexing_strides == sliced.value.stride
        win_indices_shape == WinIndicesShape(arr_shape, window_shape, step)
        new_shape == win_indices_shape \o window_shape
        strides == indexing_strides \o window_strides
    IN Return(as_strided(arr_in, new_shape, strides))

(***************************************************************************)
(* The parts of the state an operation does not use stay as constructed.   *)
(***************************************************************************)
\* A local variable that is not bound yet.
Unbound == [shape |-> <<>>, base |-> "unbound", blocks |-> <<>>]

EncIdle ==
    /\ pc = "idle"
    /\ enc_x = Unbound
    /\ enc_out = Unbound
    /\ enc_it = 0
    /\ trace = <<>>

LayerIdle ==
    /\ heap = <<>>
    /\ cnv = None
    /\ mpl = None
    /\ held = None

(***************************************************************************)
(* Callers of view_as_windows: the arguments explored.                     *)
(***************************************************************************)
Iota(n) == [k \in 1..n |-> k - 1]

Reverse(s) == [d \in 1..Len(s) |-> s[Len(s) + 1 - d]]

\* Shapes of rank N: at most MaxNumel elements; an empty tensor has extents 0/1.
Shapes(N) ==
    {s \in [1..N -> 0..MaxExt] :
        /\ Prod(s) <= MaxNumel
        /\ (\E d \in 1..N : s[d] = 0) => (\A d \in 1..N : s[d] <= 1)}

NonEmptyShapes(N) == {s \in Shapes(N) : \A d \in 1..N : s[d] >= 1}

Layouts == {"contiguous", "transposed", "sliced"}

\* A tensor holding 0, 1, 2, ... in its storage: freshly allocated, the
\* transpose of a fresh tensor, or base[1:] of a fresh tensor.
ArrIn(shape, layout) ==
    CASE layout = "contiguous" -> Tensor(Iota(Prod(shape)), shape)
      [] layout = "transposed" ->
            [data |-> Iota(Prod(shape)), offset |-> 0, shape |-> shape,
             stride |-> Reverse(ContigStrides(Reverse(shape)))]
      [] layout = "sliced" ->
            [data |-> Iota(Prod(shape) + ContigStrides(shape)[1]),
             offset |-> ContigStrides(shape)[1], shape |-> shape,
             stride |-> ContigStrides(shape)]

NotATensor == [list |-> <<0, 1, 2>>]

MaxOf(s) == CHOOSE m \in {s[d] : d \in 1..Len(s)} : \A d \in 1..Len(s) : s[d] <= m
MinOf(s) == CHOOSE m \in {s[d] : d \in 1..Len(s)} : \A d \in 1..Len(s) : s[d] >= m

ValidWindows(shape) ==
    {Num(w) : w \in 1..MinOf(shape)}
    \cup {Tup(w) : w \in {v \in [1..Len(shape) -> 1..MaxExt] :
                              \A d \in 1..Len(shape) : v[d] <= shape[d]}}

ValidSteps(N) ==
    {Num(st) : st \in 1..MaxStep} \cup {Tup(st) : st \in [1..N -> 1..MaxStep]}

\* Every window argument, well-formed or not: extents 0..n+1, wrong lengths.
AnyWindows(shape) ==
    {Num(w) : w \in 0..(MaxOf(shape) + 1)}
    \cup {Tup(w) : w \in {v \in [1..Len(shape) -> 0..(MaxExt + 1)] :
                              \A d \in 1..Len(shape) : v[d] <= shape[d] + 1}}
    \cup {Tup(Repeat(1, Len(shape) - 1)), Tup(Repeat(1, Len(shape) + 1))}

\* Step arguments, well-formed or not: scalars from -1, wrong lengths, and
\* tuples with one component replaced by 0 or -1.
AnySteps(N) ==
    {Num(st) : st \in (-1)..MaxStep}
    \cup {Tup(Repeat(1, N - 1)), Tup(Repeat(1, N + 1)), Tup(Repeat(1, N))}
    \cup {Tup([Repeat(MaxStep, N) EXCEPT ![d] = v]) : d \in 1..N, v \in (-1)..0}

\* Window arguments paired with every step argument: one of each kind.
SomeWindows(shape) ==
    {Num(0), Num(1), Num(MaxOf(shape) + 1), Tup(Repeat(1, Len(shape))),
     Tup(Repeat(1, Len(shape) - 1)), Tup(Repeat(1, Len(shape) + 1))}

\* The calls explored on inputs of one shape: well-formed calls on every
\* layout, and calls with any window or any step on a fresh tensor.
WinInputs(sh) ==
    LET N == Len(sh)
    IN {[arr_in |-> ArrIn(sh, a[1]), window_shape |-> a[2], step |-> a[3]] :
           a \in IF sh \in NonEmptyShapes(N)
                 THEN Layouts \X ValidWindows(sh) \X ValidSteps(N)
                 ELSE {}}
       \cup
       {[arr_in |-> ArrIn(sh, "contiguous"), window_shape |-> a[1], step |-> a[2]] :
           a \in (AnyWindows(sh) \X {Num(1), Tup(Repeat(MaxStep, N))})
                     \cup (SomeWindows(sh) \X AnySteps(N))}
       \cup
       {[arr_in |-> NotATensor, window_shape |-> w, step |-> st] :
           w \in {Num(1), Tup(Repeat(1, N))},
           st \in {Num(1), Num(0), Tup(Repeat(1, N))}}

\* A call is pending until `ret` holds what it returned or raised.
Pending == ret = None

InitWin ==
    /\ \E N \in 1..MaxRank : \E sh \in Shapes(N) : \E a \in WinInputs(sh) :
          call = [op |-> "view_as_windows", arr_in |-> a.arr_in,
                  window_shape |-> a.window_shape, step |-> a.step]
    /\ ret = None
    /\ EncIdle
    /\ LayerIdle

ViewCall ==
    /\ Pending
    /\ call.op = "view_as_windows"
    /\ ret' = view_as_windows(call.arr_in, call.window_shape, call.step)
    /\ UNCHANGED <<call, encvars, layervars>>

SpecWin == InitWin /\ [][ViewCall]_vars

(***************************************************************************)
(* Claims about view_as_windows (SpecWin).                                 *)
(***************************************************************************)
Returned == ~Pending /\ ret.exc = "none"

\* The argument as the per-dimension tuple it stands for (a scalar broadcast).
Broadcast(arg, N) == IF arg.num THEN Repeat(arg.v[1], N) ELSE arg.v

WellFormedWindowCall ==
    /\ call.op = "view_as_windows"
    /\ is_tensor(call.arr_in)
    /\ LET N == Len(call.arr_in.shape)
           w == Broadcast(call.window_shape, N)
           st == Broadcast(call.step, N)
       IN /\ Len(w) = N
          /\ Len(st) = N
          /\ \A d \in 1..N : 1 <= w[d] /\ w[d] <= call.arr_in.shape[d] /\ st[d] >= 1

\* C2: for every valid window_shape and step, view_as_windows returns a view
\* with floor((n_d - w_d)/s_d) + 1 positions along each dimension d, whose
\* element [i_0..i_{N-1}, j_0..j_{N-1}] is input[i_0*s_0 + j_0, ...]; on
\* [0,1,2,3,4] with window 3 and step 1 it is [[0,1,2],[1,2,3],[2,3,4]].
C2_ViewMatchesSlicing ==
    (WellFormedWindowCall /\ ~Pending) =>
        /\ ret.exc = "none"
        /\ LET x == call.arr_in
               N == Len(x.shape)
               w == Broadcast(call.window_shape, N)
               st == Broadcast(call.step, N)
               view == ret.value
           IN /\ Len(view.shape) = 2 * N
              /\ \A d \in 1..N :
                    /\ view.shape[d] = ((x.shape[d] - w[d]) \div st[d]) + 1
                    /\ view.shape[N + d] = w[d]
              /\ \A idx \in IdxSet(view.shape) :
                    Elem(view, idx) =
                        Elem(x, [d \in 1..N |-> idx[d] * st[d] + idx[N + d]])
              /\ (x = Tensor(<<0, 1, 2, 3, 4>>, <<5>>)
                    /\ call.window_shape = Num(3) /\ call.step = Num(1))
                 => [i \in 1..3 |-> [j \in 1..3 |-> Elem(view, <<i - 1, j - 1>>)]]
                        = <<<<0, 1, 2>>, <<1, 2, 3>>, <<2, 3, 4>>>>

\* A 2-D transposed input windowed with a step of 2 along the first dimension
\* where (n - w) is not divisible by the step.
C2_Witness ==
    /\ Returned
    /\ call.op = "view_as_windows"
    /\ call.arr_in = ArrIn(<<3, 2>>, "transposed")
    /\ call.window_shape = Tup(<<2, 1>>)
    /\ call.step = Tup(<<2, 1>>)
    /\ ret.value.shape = <<1, 2, 2, 1>>

\* C3: view_as_windows returns no view and fails with TypeError for a
\* non-tensor input, and with ValueError for a window_shape of the wrong
\* length, a step component < 1 (scalar or tuple) or a step tuple of the wrong
\* length, a window extent above the input extent, or a window extent < 1.
C3_MalformedInputsRaise ==
    (call.op = "view_as_windows" /\ ~Pending) =>
        /\ ~is_tensor(call.arr_in) => ret.exc = "TypeError"
        /\ is_tensor(call.arr_in) =>
            LET N == Len(call.arr_in.shape)
                w == Broadcast(call.window_shape, N)
                st == Broadcast(call.step, N)
            IN /\ Len(w) # N => ret.exc = "ValueError"
               /\ (Len(st) # N \/ \E d \in 1..Len(st) : st[d] < 1)
                     => ret.exc = "ValueError"
               /\ (Len(w) = N /\ \E d \in 1..N : w[d] > call.arr_in.shape[d])
                     => ret.exc = "ValueError"
               /\ (\E d \in 1..Len(w) : w[d] < 1) => ret.exc = "ValueError"
        /\ ret.exc # "none" => ret.value = None

\* A step tuple with a component below 1, everything else well-formed.
C3_Witness ==
    /\ ~Pending
    /\ call.op = "view_as_windows"
    /\ is_tensor(call.arr_in)
    /\ call.arr_in.shape = <<2, 2>>
    /\ call.window_shape = Tup(<<1, 1>>)
    /\ call.step = Tup(<<0, 2>>)
    /\ ret.exc = "ValueError"

(***************************************************************************)
(* Tensor operations used by the layers.                                   *)
(***************************************************************************)
RECURSIVE SumSeq(_)
SumSeq(s) == IF s = <<>> THEN 0 ELSE s[1] + SumSeq(Tail(s))

RECURSIVE MaxSeq(_)
MaxSeq(s) == IF Len(s) = 1 THEN s[1] ELSE Max2(s[1], MaxSeq(Tail(s)))

\* t.squeeze(dim), dim 0-based: drops the dimension when its extent is 1.
squeeze(t, dim) ==
    IF t.shape[dim + 1] # 1 THEN t
    ELSE LET keep == [d \in 1..(Len(t.shape) - 1) |-> IF d <= dim THEN d ELSE d + 1]
         IN [data |-> t.data, offset |-> t.offset,
             shape |-> [d \in 1..Len(keep) |-> t.shape[keep[d]]],
             stride |-> [d \in 1..Len(keep) |-> t.stride[keep[d]]]]

\* t.reshape(shape): the elements in row-major order under the new shape.
reshape(t, shape) == Tensor(Flatten(t), shape)

\* t.permute(dims), dims 0-based.
permute(t, dims) ==
    [data |-> t.data, offset |-> t.offset,
     shape |-> [d \in 1..Len(dims) |-> t.shape[dims[d] + 1]],
     stride |-> [d \in 1..Len(dims) |-> t.stride[dims[d] + 1]]]

\* torch.mm(a, b) for a of shape (R, K) and b of shape (K, O).
mm(a, b) ==
    LET R == a.shape[1]
        K == a.shape[2]
        O == b.shape[2]
    IN Tensor([k \in 1..(R * O) |->
                  SumSeq([j \in 1..K |->
                      Elem(a, <<(k - 1) \div O, j - 1>>)
                          * Elem(b, <<j - 1, (k - 1) % O>>)])],
              <<R, O>>)

\* a + b with b broadcast along its dimensions of extent 1 (same rank).
add_broadcast(a, b) ==
    Tensor([k \in 1..Numel(a) |->
               LET idx == Unravel(k - 1, a.shape)
               IN Elem(a, idx)
                    + Elem(b, [d \in 1..Len(idx) |->
                                  IF b.shape[d] = 1 THEN 0 ELSE idx[d]])],
           a.shape)

\* torch.max(t, dim=-1)[0]: the maximum over the last dimension.
max_last(t) ==
    LET outer == SubSeq(t.shape, 1, Len(t.shape) - 1)
        n == t.shape[Len(t.shape)]
    IN Tensor([k \in 1..Prod(outer) |->
                  MaxSeq([j \in 1..n |-> Elem(t, Unravel(k - 1, outer) \o <<j - 1>>)])],
              outer)

(***************************************************************************)
(* hw4.py: nn_convolutional_layer.forward                                  *)
(***************************************************************************)
\* A plausible slip: the patch matrix built without moving the position axis
\* in front of the channel axis.
im2col_nopermute(x_windows, batch_size, in_ch_size, out_hw, f_hw) ==
    reshape(reshape(x_windows, <<batch_size, in_ch_size, out_hw, f_hw>>),
            <<batch_size * out_hw, in_ch_size * f_hw>>)

\* x_col: one row per (batch, position), one column per (channel, offset).
im2col(x_windows, batch_size, in_ch_size, out_hw, f_hw) ==
    reshape(permute(reshape(x_windows, <<batch_size, in_ch_size, out_hw, f_hw>>),
                    <<0, 2, 1, 3>>),
            <<batch_size * out_hw, in_ch_size * f_hw>>)

conv_forward(x, W, b) ==
    LET batch_size == x.shape[1]
        in_ch_size == x.shape[2]
        height == x.shape[3]
        width == x.shape[4]
        out_ch_size == W.shape[1]
        f_height == W.shape[3]
        f_width == W.shape[4]
        out_height == height - f_height + 1
        out_width == width - f_width + 1
        windows == view_as_windows(x, Tup(<<1, 1, f_height, f_width>>), Num(1))
    IN
    IF windows.exc # "none" THEN windows
    ELSE
    LET x_windows == squeeze(squeeze(windows.value, 2), 2)
        x_col == im2col(x_windows, batch_size, in_ch_size,
                        out_height * out_width, f_height * f_width)
        W_col == reshape(W, <<out_ch_size, in_ch_size * f_height * f_width>>)
        out1 == mm(x_col, permute(W_col, <<1, 0>>))
        out2 == permute(reshape(out1, <<batch_size, out_height, out_width, out_ch_size>>),
                        <<0, 3, 1, 2>>)
    IN Return(add_broadcast(out2, b))

(***************************************************************************)
(* hw4.py: nn_max_pooling_layer.forward                                    *)
(***************************************************************************)
\* A plausible slip: the windows taken at every position, the stride ignored.
pool_step_unit(stride) == Tup(<<1, 1, 1, 1>>)

pool_step(stride) == Tup(<<1, 1, stride, stride>>)

pool_forward(x, pool_size, stride) ==
    LET batch_size == x.shape[1]
        channels == x.shape[2]
        height == x.shape[3]
        width == x.shape[4]
        out_height == ((height - pool_size) \div stride) + 1
        out_width == ((width - pool_size) \div stride) + 1
        windows == view_as_windows(x, Tup(<<1, 1, pool_size, pool_size>>),
                                   pool_step(stride))
    IN
    IF windows.exc # "none" THEN windows
    ELSE
    LET squeezed == squeeze(squeeze(windows.value, 2), 2)
        new_shape == <<batch_size, channels, out_height, out_width,
                       pool_size * pool_size>>
    IN Return(max_last(reshape(squeezed, new_shape)))

(***************************************************************************)
(* Callers of the two forward passes: the batches and parameters explored. *)
(***************************************************************************)
\* Test data: 1, 2, 3, ... or a sequence of mixed signs.
Values(n, kind) ==
    IF kind = "count" THEN [k \in 1..n |-> k]
    ELSE [k \in 1..n |-> ((k * k + 3 * k) % 7) - 3]

Kinds == {"count", "mixed"}

InitConv ==
    /\ \E batch_size \in 1..MaxBatch, in_ch_size \in 1..MaxCh,
          out_ch_size \in 1..MaxCh, height \in 1..MaxHW, width \in 1..MaxHW :
       \E f_height \in 1..height, f_width \in 1..width, kx \in Kinds, kw \in Kinds :
          call = [op |-> "conv_forward",
                  x |-> Tensor(Values(batch_size * in_ch_size * height * width, kx),
                               <<batch_size, in_ch_size, height, width>>),
                  W |-> Tensor(Values(out_ch_size * in_ch_size * f_height * f_width, kw),
                               <<out_ch_size, in_ch_size, f_height, f_width>>),
                  b |-> Tensor(Values(out_ch_size, kw), <<1, out_ch_size, 1, 1>>)]
    /\ ret = None
    /\ EncIdle
    /\ LayerIdle

ConvCall ==
    /\ Pending
    /\ call.op = "conv_forward"
    /\ ret' = conv_forward(call.x, call.W, call.b)
    /\ UNCHANGED <<call, encvars, layervars>>

SpecConv == InitConv /\ [][ConvCall]_vars

InitPool ==
    /\ \E batch_size \in 1..MaxBatch, channels \in 1..MaxCh,
          height \in 1..MaxHW, width \in 1..MaxHW :
       \E pool_size \in 1..MinOf(<<height, width>>), stride \in 1..MaxStep,
          kx \in Kinds :
          call = [op |-> "pool_forward",
                  x |-> Tensor(Values(batch_size * channels * height * width, kx),
                               <<batch_size, channels, height, width>>),
                  pool_size |-> pool_size, stride |-> stride]
    /\ ret = None
    /\ EncIdle
    /\ LayerIdle

PoolCall ==
    /\ Pending
    /\ call.op = "pool_forward"
    /\ ret' = pool_forward(call.x, call.pool_size, call.stride)
    /\ UNCHANGED <<call, encvars, layervars>>

SpecPool == InitPool /\ [][PoolCall]_vars

(***************************************************************************)
(* Claims about the forward passes (SpecConv, SpecPool).                   *)
(***************************************************************************)
\* C5: for x of shape (batch, in_ch, H, W) and W (out_ch, in_ch, f_h, f_w),
\* b (1, out_ch, 1, 1) with f_h <= H and f_w <= W, forward returns a tensor of
\* shape (batch, out_ch, H-f_h+1, W-f_w+1) whose element [n,o,i,j] is
\* b[o] + sum over c,p,q of x[n,c,i+p,j+q] * W[o,c,p,q], also when an output
\* spatial extent is 1.
C5_ConvIsCrossCorrelation ==
    (call.op = "conv_forward" /\ ~Pending) =>
        /\ ret.exc = "none"
        /\ LET x == call.x
               W == call.W
               out == ret.value
               kshape == <<W.shape[2], W.shape[3], W.shape[4]>>
           IN /\ out.shape = <<x.shape[1], W.shape[1],
                               x.shape[3] - W.shape[3] + 1,
                               x.shape[4] - W.shape[4] + 1>>
              /\ \A idx \in IdxSet(out.shape) :
                    Elem(out, idx) =
                        Elem(call.b, <<0, idx[2], 0, 0>>)
                        + SumSeq([k \in 1..Prod(kshape) |->
                            LET cpq == Unravel(k - 1, kshape)
                            IN Elem(x, <<idx[1], cpq[1], idx[3] + cpq[2],
                                         idx[4] + cpq[3]>>)
                                 * Elem(W, <<idx[2], cpq[1], cpq[2], cpq[3]>>)])

\* Two channels in and out, a 2x2 filter over a 2x3 image: output height 1.
C5_Witness ==
    /\ Returned
    /\ call.op = "conv_forward"
    /\ call.x.shape = <<2, 2, 2, 3>>
    /\ call.W.shape = <<2, 2, 2, 2>>
    /\ ret.value.shape = <<2, 2, 1, 2>>

\* C6: for x of shape (batch, ch, H, W), pool_size p <= min(H, W) and stride
\* s >= 1, forward returns a tensor of shape (batch, ch, (H-p)//s+1,
\* (W-p)//s+1) whose element [n,c,i,j] is the maximum of x[n,c,i*s+u,j*s+v]
\* over 0 <= u,v < p, whether or not (H-p), (W-p) are divisible by s; pooling
\* [[1,2],[3,4]] with pool_size 2 and stride 2 yields [[4]].
C6_PoolIsWindowMaximum ==
    (call.op = "pool_forward" /\ ~Pending) =>
        /\ ret.exc = "none"
        /\ LET x == call.x
               p == call.pool_size
               st == call.stride
               out == ret.value
           IN /\ out.shape = <<x.shape[1], x.shape[2],
                               ((x.shape[3] - p) \div st) + 1,
                               ((x.shape[4] - p) \div st) + 1>>
              /\ \A idx \in IdxSet(out.shape) :
                    LET win == {Elem(x, <<idx[1], idx[2], idx[3] * st + u,
                                         idx[4] * st + v>>) :
                                   u \in 0..(p - 1), v \in 0..(p - 1)}
                    IN /\ Elem(out, idx) \in win
                       /\ \A e \in win : e <= Elem(out, idx)
              /\ (x = Tensor(<<1, 2, 3, 4>>, <<1, 1, 2, 2>>) /\ p = 2 /\ st = 2)
                 => out = Tensor(<<4>>, <<1, 1, 1, 1>>)

\* A 3x3 image pooled 2x2 with stride 2: (H - p) is not divisible by the stride.
C6_Witness ==
    /\ Returned
    /\ call.op = "pool_forward"
    /\ call.x.shape = <<2, 2, 3, 3>>
    /\ call.pool_size = 2
    /\ call.stride = 2
    /\ ret.value.shape = <<2, 2, 1, 1>>

(***************************************************************************)
(* hw7.py: TF_Encoder_Block.forward and TF_Encoder.forward.                *)
(* An activation is kept as its shape and its provenance: the input it was *)
(* computed from and the encoder blocks applied to it, in order.           *)
(***************************************************************************)
\* nn.Linear(in_features, out_features) on a (..., in_features) activation.
linear_shape(shape, out_features) == [shape EXCEPT ![Len(shape)] = out_features]

\* MultiHeadAttention.forward: the shape of its result for x_Q of this shape.
mha_shape(shape, d_model, d_V, numhead) ==
    LET batch_size == shape[1]
        seq_len == shape[2]
        V == <<batch_size, numhead, seq_len, d_V>>
        merged == <<batch_size, seq_len, Prod(V) \div (batch_size * seq_len)>>
    IN linear_shape(merged, d_model)

\* TF_Encoder_Block.forward of encoder layer k.
encoder_block(k, x_in, d_model, d_ff, numhead) ==
    LET att_out == mha_shape(x_in.shape, d_model, d_model \div numhead, numhead)
        normed1 == att_out
        ff_out == linear_shape(linear_shape(normed1, d_ff), d_model)
    IN [shape |-> ff_out, base |-> x_in.base, blocks |-> Append(x_in.blocks, k)]

\* x = self.dropout(self.src_embed(x)) + PosEncoding(x.shape[1], x.shape[2])
Embedded(tokens_shape, d_model) ==
    [shape |-> tokens_shape \o <<d_model>>, base |-> "src_embed+p_enc",
     blocks |-> <<>>]

InitEnc ==
    /\ \E numlayer \in 0..MaxLayers, batch_size \in 1..MaxBatch,
          seq_len \in 1..MaxSeqLen, d_model \in 1..MaxDModel, d_ff \in 1..MaxDModel :
       \E numhead \in 1..MinOf(<<MaxHeads, d_model>>),
          lens \in [1..batch_size -> 0..seq_len] :
          call = [op |-> "encoder_forward", numlayer |-> numlayer,
                  x_shape |-> <<batch_size, seq_len>>, d_model |-> d_model,
                  d_ff |-> d_ff, numhead |-> numhead, src_batch_lens |-> lens]
    /\ ret = None
    /\ pc = "embed"
    /\ enc_x = Unbound
    /\ enc_out = Unbound
    /\ enc_it = 1
    /\ trace = <<>>
    /\ LayerIdle

\* Lines 155-158: embed the tokens and add the positional encoding.
EncEmbed ==
    /\ pc = "embed"
    /\ enc_x' = Embedded(call.x_shape, call.d_model)
    /\ pc' = "loop"
    /\ UNCHANGED <<call, ret, enc_out, enc_it, trace, layervars>>

\* Lines 161-162: one iteration of the loop over self.encoder_layers.
EncLayer ==
    /\ pc = "loop"
    /\ enc_it <= call.numlayer
    /\ enc_out' = encoder_block(enc_it, enc_x, call.d_model, call.d_ff, call.numhead)
    /\ trace' = Append(trace, [layer |-> enc_it, input |-> enc_x,
                               src_batch_lens |-> call.src_batch_lens,
                               output |-> enc_out'])
    /\ enc_it' = enc_it + 1
    /\ UNCHANGED <<call, ret, pc, enc_x, layervars>>

\* Line 164: return out, which is unbound when the loop body never ran.
EncReturn ==
    /\ pc = "loop"
    /\ enc_it > call.numlayer
    /\ ret' = IF enc_out = Unbound
              THEN Raise("UnboundLocalError",
                         "local variable 'out' referenced before assignment")
              ELSE Return(enc_out)
    /\ pc' = "done"
    /\ UNCHANGED <<call, enc_x, enc_out, enc_it, trace, layervars>>

NextEnc == EncEmbed \/ EncLayer \/ EncReturn

SpecEnc == InitEnc /\ [][NextEnc]_vars

\* C1: TF_Encoder.forward applies the numlayer blocks in sequence: block 1
\* receives the embedded, positionally encoded input, every block k > 1
\* receives the output of block k-1, and the value returned is the output of
\* the last block of that chain.
C1_BlocksChained ==
    (call.op = "encoder_forward" /\ pc = "done") =>
        /\ Len(trace) = call.numlayer
        /\ \A k \in 1..Len(trace) :
              /\ trace[k].layer = k
              /\ trace[k].input = IF k = 1
                                  THEN Embedded(call.x_shape, call.d_model)
                                  ELSE trace[k - 1].output
        /\ call.numlayer >= 1 =>
              /\ ret = Return(trace[call.numlayer].output)
              /\ ret.value.blocks = [k \in 1..call.numlayer |-> k]

\* C9: for every numlayer the encoder can be constructed with, 0 and 1
\* included, TF_Encoder.forward on a (batch, seq_len) token batch returns
\* normally with an output of shape (batch, seq_len, d_model).
C9_ShapePreserved ==
    (call.op = "encoder_forward" /\ pc = "done") =>
        /\ ret.exc = "none"
        /\ ret.value.shape = call.x_shape \o <<call.d_model>>

(***************************************************************************)
(* hw7.py: MultiHeadAttention.forward.                                     *)
(* Projections and dot products are computed on integers.  A score is kept *)
(* as [inf, dot]: minus infinity, or dot / sqrt(d_K).  A softmax weight is *)
(* kept as [kind, rel]: "zero" (exp of minus infinity over a finite sum),  *)
(* "nan" (a row whose maximum is minus infinity: -inf - -inf), or "pos",   *)
(* the weight exp(rel / sqrt(d_K)) / Z with rel the distance to the row's  *)
(* maximum.                                                                *)
(***************************************************************************)
\* nn.Linear with weight Wt (out_features, in_features) and bias on x (b, s, in).
linear(x_in, Wt, bias) ==
    LET o_n == Wt.shape[1]
        shape == <<x_in.shape[1], x_in.shape[2], o_n>>
    IN Tensor([n \in 1..Prod(shape) |->
                  LET idx == Unravel(n - 1, shape)
                  IN SumSeq([j \in 1..Wt.shape[2] |->
                                Elem(x_in, <<idx[1], idx[2], j - 1>>)
                                    * Elem(Wt, <<idx[3], j - 1>>)])
                       + Elem(bias, <<idx[3]>>)],
              shape)

\* t.view(batch_size, seq_len, numhead, d).transpose(1, 2)
split_heads(t, numhead, d) ==
    permute(reshape(t, <<t.shape[1], t.shape[2], numhead, d>>), <<0, 2, 1, 3>>)

\* mask[i, :, :, length:] = True masks along the last (key) axis.
masked_position(idx) == idx[4]

\* The mask built from src_batch_lens, over (batch, head, query, key).
attention_mask(shape, src_batch_lens) ==
    [idx \in IdxSet(shape) |->
        src_batch_lens.given /\ masked_position(idx) >= src_batch_lens.v[idx[1] + 1]]

\* F.softmax(scores, dim=-1) on the row of idx.
softmax_at(scores, idx, seq_len) ==
    LET row == [k \in 1..seq_len |-> scores[[idx EXCEPT ![4] = k - 1]]]
        finite == {k \in 1..seq_len : ~row[k].inf}
    IN IF finite = {} THEN [kind |-> "nan", rel |-> 0]
       ELSE IF scores[idx].inf THEN [kind |-> "zero", rel |-> 0]
       ELSE LET top == CHOOSE m \in {row[k].dot : k \in finite} :
                          \A k \in finite : row[k].dot <= m
            IN [kind |-> "pos", rel |-> scores[idx].dot - top]

\* self.dropout(attention): in training some weights are zeroed (here those
\* at even or at odd query+key positions), the others rescaled.
dropout_at(weight, idx, mode) ==
    IF weight.kind = "pos"
       /\ ((mode = "train_even" /\ (idx[3] + idx[4]) % 2 = 0)
           \/ (mode = "train_odd" /\ (idx[3] + idx[4]) % 2 = 1))
    THEN [kind |-> "zero", rel |-> 0]
    ELSE weight

mha_forward(x_Q, x_K, W_Q, b_Q, W_K, b_K, numhead, d_K, d_model, src_batch_lens, mode) ==
    LET batch_size == x_Q.shape[1]
        seq_len == x_Q.shape[2]
        Q == split_heads(linear(x_Q, W_Q, b_Q), numhead, d_K)
        K == split_heads(linear(x_K, W_K, b_K), numhead, d_K)
        shape == <<batch_size, numhead, seq_len, seq_len>>
        mask == attention_mask(shape, src_batch_lens)
        scores ==
            [idx \in IdxSet(shape) |->
                IF mask[idx] THEN [inf |-> TRUE, dot |-> 0]
                ELSE [inf |-> FALSE,
                      dot |-> SumSeq([d \in 1..d_K |->
                                 Elem(Q, <<idx[1], idx[2], idx[3], d - 1>>)
                                   * Elem(K, <<idx[1], idx[2], idx[4], d - 1>>)])]]
        attention == [idx \in IdxSet(shape) |-> softmax_at(scores, idx, seq_len)]
        dropped == [idx \in IdxSet(shape) |-> dropout_at(attention[idx], idx, mode)]
    IN Return([mask |-> mask, scores |-> scores, attention |-> attention,
               dropped |-> dropped,
               out_shape |-> <<batch_size, seq_len, d_model>>,
               out_nan |-> {<<idx[1], idx[3]>> : idx \in
                              {j \in IdxSet(shape) : dropped[j].kind = "nan"}}])

Modes == {"eval", "train_even", "train_odd"}

LensArgs(batch_size, seq_len) ==
    {[given |-> FALSE, v |-> <<>>]}
    \cup {[given |-> TRUE, v |-> l] : l \in [1..batch_size -> 0..seq_len]}

InitAttn ==
    /\ \E batch_size \in 1..MaxBatch, seq_len \in 1..MaxSeqLen,
          numhead \in 1..MaxHeads, d_K \in 1..MaxDModel, d_model \in 1..MaxDModel :
       \E lens \in LensArgs(batch_size, seq_len), kx \in Kinds, kw \in Kinds,
          mode \in Modes :
          call = [op |-> "mha_forward",
                  x_Q |-> Tensor(Values(batch_size * seq_len * d_model, kx),
                                 <<batch_size, seq_len, d_model>>),
                  x_K |-> Tensor(Values(batch_size * seq_len * d_model, kw),
                                 <<batch_size, seq_len, d_model>>),
                  W_Q |-> Tensor(Values(numhead * d_K * d_model, kw),
                                 <<numhead * d_K, d_model>>),
                  b_Q |-> Tensor(Values(numhead * d_K, kx), <<numhead * d_K>>),
                  W_K |-> Tensor(Values(numhead * d_K * d_model, kx),
                                 <<numhead * d_K, d_model>>),
                  b_K |-> Tensor(Values(numhead * d_K, kw), <<numhead * d_K>>),
                  numhead |-> numhead, d_K |-> d_K, d_model |-> d_model,
                  src_batch_lens |-> lens, mode |-> mode]
    /\ ret = None
    /\ EncIdle
    /\ LayerIdle

AttnCall ==
    /\ Pending
    /\ call.op = "mha_forward"
    /\ ret' = mha_forward(call.x_Q, call.x_K, call.W_Q, call.b_Q, call.W_K,
                          call.b_K, call.numhead, call.d_K, call.d_model,
                          call.src_batch_lens, call.mode)
    /\ UNCHANGED <<call, encvars, layervars>>

SpecAttn == InitAttn /\ [][AttnCall]_vars

\* C4: with a length vector [L_1..L_b], 0 <= L_i <= seq_len, for every batch
\* element i, head h, query q and key position k >= L_i the softmax weight at
\* [i,h,q,k] is exactly zero (its score was minus infinity before softmax),
\* and key positions k < L_i are not masked.
C4_PaddingGetsZeroWeight ==
    (call.op = "mha_forward" /\ ~Pending /\ call.src_batch_lens.given) =>
        \A idx \in DOMAIN ret.value.attention :
            LET L == call.src_batch_lens.v[idx[1] + 1]
            IN /\ idx[4] >= L =>
                    /\ ret.value.scores[idx].inf
                    /\ ret.value.attention[idx].kind = "zero"
               /\ idx[4] < L => ~ret.value.mask[idx]

\* The same for lengths of at least 1, which is what the code provides.
C4_PaddingGetsZeroWeightNonEmpty ==
    (call.op = "mha_forward" /\ ~Pending /\ call.src_batch_lens.given
        /\ \A i \in 1..Len(call.src_batch_lens.v) : call.src_batch_lens.v[i] >= 1) =>
        \A idx \in DOMAIN ret.value.attention :
            LET L == call.src_batch_lens.v[idx[1] + 1]
            IN /\ idx[4] >= L =>
                    /\ ret.value.scores[idx].inf
                    /\ ret.value.attention[idx].kind = "zero"
               /\ idx[4] < L => ~ret.value.mask[idx]

(***************************************************************************)
(* hw4.py: the layer objects and the tensors their caller holds.           *)
(* A tensor object is a reference [st, shape, requires_grad] to a storage  *)
(* of `heap`; two references alias when they name the same storage.        *)
(* Parameters are counted in hundredths, so the initial bias 0.01 is 1.    *)
(***************************************************************************)
Slots == {"W0", "b0", "x", "out"}

StorageIds == 1..(Cardinality(Slots) + 3)

NoRef == [st |-> 0, shape |-> <<>>, requires_grad |-> FALSE]

Ref(id, shape, requires_grad) ==
    [st |-> id, shape |-> shape, requires_grad |-> requires_grad]

\* The storages some live tensor object refers to.
Live(c, hl) == ({c.W.st, c.b.st} \cup {hl[sl].st : sl \in Slots}) \ {0}

\* Allocation of a new storage: the first one that is not in use.
FreshId(live) ==
    CHOOSE id \in StorageIds \ live : \A j \in StorageIds \ live : id <= j

\* Storages no tensor refers to any more are released.
Collect(h, c, hl) ==
    [id \in StorageIds |-> IF id \in Live(c, hl) THEN h[id] ELSE <<>>]

AsTensor(h, ref) == Tensor(h[ref.st], ref.shape)

AddSeq(a, b) == [k \in 1..Len(a) |-> a[k] + b[k]]

BiasInit == 1

WShape == <<1, 1, 1, 2>>
bShape == <<1, 1, 1, 1>>
xShape == <<1, 1, 2, 2>>

SlotShape(sl) ==
    CASE sl = "W0" -> WShape
      [] sl = "b0" -> bShape
      [] sl = "x" -> xShape

\* A plausible slip: detach() without clone(), which shares the storage.
detach_only(ref, live) == ref.st

\* t.clone().detach(): the result lives in a storage of its own.
clone_detach(ref, live) == FreshId(live)

\* A plausible slip: the bias added in place, into the parameter's storage.
conv_out_in_bias(c, live) == c.b.st

\* out = out + self.b allocates the tensor that forward returns.
conv_out_storage(c, live) == FreshId(live)

\* nn_convolutional_layer(1, 2, 2, 1, 1) and nn_max_pooling_layer(p, s).
InitLayer ==
    /\ \E kw \in Kinds :
          heap = [id \in StorageIds |->
                     CASE id = 1 -> Values(Prod(WShape), kw)
                       [] id = 2 -> <<BiasInit>>
                       [] OTHER -> <<>>]
    /\ cnv = [W |-> Ref(1, WShape, TRUE), b |-> Ref(2, bShape, TRUE),
              input_size |-> 2]
    /\ \E pool_size \in 1..2, stride \in 1..2 :
          mpl = [pool_size |-> pool_size, stride |-> stride]
    /\ held = [sl \in Slots |-> NoRef]
    /\ call = [op |-> "__init__", n |-> 0]
    /\ ret = Return(None)
    /\ EncIdle

\* update_weights(dW, db): self.W += dW; self.b += db.  An in-place operation
\* on a leaf tensor that requires grad raises RuntimeError unless autograd is
\* disabled (torch.no_grad()).
UpdateWeights(dW, db, grad_enabled) ==
    /\ call.n < MaxOps
    /\ \A k \in 1..Len(dW) : -MaxAbs <= heap[cnv.W.st][k] + dW[k]
                             /\ heap[cnv.W.st][k] + dW[k] <= MaxAbs
    /\ \A k \in 1..Len(db) : -MaxAbs <= heap[cnv.b.st][k] + db[k]
                             /\ heap[cnv.b.st][k] + db[k] <= MaxAbs
    /\ call' = [op |-> "update_weights", n |-> call.n + 1, dW |-> dW, db |-> db,
                grad_enabled |-> grad_enabled,
                W_before |-> heap[cnv.W.st], b_before |-> heap[cnv.b.st]]
    /\ IF cnv.W.requires_grad /\ grad_enabled
       THEN /\ ret' = Raise("RuntimeError",
                  "a leaf Variable that requires grad is being used in an in-place operation")
            /\ UNCHANGED heap
       ELSE LET h1 == [heap EXCEPT ![cnv.W.st] = AddSeq(heap[cnv.W.st], dW)]
            IN IF cnv.b.requires_grad /\ grad_enabled
               THEN /\ ret' = Raise("RuntimeError",
                          "a leaf Variable that requires grad is being used in an in-place operation")
                    /\ heap' = h1
               ELSE /\ ret' = Return(None)
                    /\ heap' = [h1 EXCEPT ![cnv.b.st] = AddSeq(h1[cnv.b.st], db)]
    /\ UNCHANGED <<cnv, mpl, held, encvars>>

\* W0, b0 = cnv.get_weights()
GetWeights ==
    /\ call.n < MaxOps
    /\ LET dropped == [held EXCEPT !["W0"] = NoRef, !["b0"] = NoRef]
           wid == clone_detach(cnv.W, Live(cnv, dropped))
           bid == clone_detach(cnv.b, Live(cnv, dropped) \cup {wid})
           hl == [held EXCEPT !["W0"] = Ref(wid, cnv.W.shape, FALSE),
                              !["b0"] = Ref(bid, cnv.b.shape, FALSE)]
       IN /\ held' = hl
          /\ heap' = Collect([heap EXCEPT ![wid] = heap[cnv.W.st],
                                          ![bid] = heap[cnv.b.st]], cnv, hl)
          /\ ret' = Return(<<heap[cnv.W.st], heap[cnv.b.st]>>)
    /\ call' = [op |-> "get_weights", n |-> call.n + 1]
    /\ UNCHANGED <<cnv, mpl, encvars>>

\* cnv.set_weights(W0, b0) with the tensors the caller holds.
SetWeights ==
    /\ call.n < MaxOps
    /\ held["W0"] # NoRef
    /\ held["b0"] # NoRef
    /\ LET dropped == [cnv EXCEPT !.W = NoRef, !.b = NoRef]
           wid == clone_detach(held["W0"], Live(dropped, held))
           bid == clone_detach(held["b0"], Live(dropped, held) \cup {wid})
           c == [cnv EXCEPT !.W = Ref(wid, held["W0"].shape, FALSE),
                            !.b = Ref(bid, held["b0"].shape, FALSE)]
       IN /\ cnv' = c
          /\ heap' = Collect([heap EXCEPT ![wid] = heap[held["W0"].st],
                                          ![bid] = heap[held["b0"].st]], c, held)
    /\ call' = [op |-> "set_weights", n |-> call.n + 1,
                W |-> heap[held["W0"].st], b |-> heap[held["b0"].st]]
    /\ ret' = Return(None)
    /\ UNCHANGED <<mpl, held, encvars>>

\* The caller creates a tensor: an input batch, or parameters to set.
CallerNew(sl, kind) ==
    /\ call.n < MaxOps
    /\ LET id == FreshId(Live(cnv, [held EXCEPT ![sl] = NoRef]))
           hl == [held EXCEPT ![sl] = Ref(id, SlotShape(sl), FALSE)]
       IN /\ held' = hl
          /\ heap' = Collect([heap EXCEPT ![id] = Values(Prod(SlotShape(sl)), kind)],
                             cnv, hl)
    /\ call' = [op |-> "caller_new", n |-> call.n + 1, slot |-> sl]
    /\ ret' = Return(None)
    /\ UNCHANGED <<cnv, mpl, encvars>>

\* The caller writes an element of a tensor it holds: t.view(-1)[k] = v.
CallerWrite(sl, k, v) ==
    /\ call.n < MaxOps
    /\ held[sl] # NoRef
    /\ k \in 1..Len(heap[held[sl].st])
    /\ heap' = [heap EXCEPT ![held[sl].st][k] = v]
    /\ call' = [op |-> "caller_write", n |-> call.n + 1, slot |-> sl]
    /\ ret' = Return(None)
    /\ UNCHANGED <<cnv, mpl, held, encvars>>

\* out = cnv.forward(x)
ConvForward ==
    /\ call.n < MaxOps
    /\ held["x"] # NoRef
    /\ LET r == conv_forward(AsTensor(heap, held["x"]), AsTensor(heap, cnv.W),
                             AsTensor(heap, cnv.b))
           id == conv_out_storage(cnv, Live(cnv, [held EXCEPT !["out"] = NoRef]))
           hl == [held EXCEPT !["out"] = Ref(id, r.value.shape, FALSE)]
       IN /\ held' = hl
          /\ heap' = Collect([heap EXCEPT ![id] = Flatten(r.value)], cnv, hl)
          /\ ret' = Return(Flatten(r.value))
    /\ call' = [op |-> "conv_forward", n |-> call.n + 1]
    /\ UNCHANGED <<cnv, mpl, encvars>>

\* out = mpl.forward(x)
PoolForward ==
    /\ call.n < MaxOps
    /\ held["x"] # NoRef
    /\ LET r == pool_forward(AsTensor(heap, held["x"]), mpl.pool_size, mpl.stride)
           id == FreshId(Live(cnv, [held EXCEPT !["out"] = NoRef]))
           hl == [held EXCEPT !["out"] = Ref(id, r.value.shape, FALSE)]
       IN /\ held' = hl
          /\ heap' = Collect([heap EXCEPT ![id] = Flatten(r.value)], cnv, hl)
          /\ ret' = Return(Flatten(r.value))
    /\ call' = [op |-> "pool_forward", n |-> call.n + 1]
    /\ UNCHANGED <<cnv, mpl, encvars>>

WriteVals == {7}

NextLayer ==
    \/ \E kw \in Kinds, grad_enabled \in BOOLEAN :
          UpdateWeights(Values(Prod(WShape), kw), Values(Prod(bShape), kw), grad_enabled)
    \/ GetWeights
    \/ SetWeights
    \/ \E sl \in Slots \ {"out"}, kind \in Kinds : CallerNew(sl, kind)
    \/ \E sl \in Slots, k \in 1..Prod(xShape), v \in WriteVals : CallerWrite(sl, k, v)
    \/ ConvForward
    \/ PoolForward

SpecLayer == InitLayer /\ [][NextLayer]_vars

LayerVals == <<heap[cnv.W.st], heap[cnv.b.st]>>

HeldVals == [sl \in Slots |-> IF held[sl] = NoRef THEN <<>> ELSE heap[held[sl].st]]

\* C7 (claim statement): update_weights(dW, db) adds the caller's deltas to
\* the stored parameters: afterwards W = W_before + dW and b = b_before + db.
C7_UpdateAddsDeltas ==
    call.op = "update_weights" =>
        /\ ret.exc = "none"
        /\ LayerVals = <<AddSeq(call.W_before, call.dW), AddSeq(call.b_before, call.db)>>

\* C7 holds once autograd is disabled or the parameters were replaced by
\* set_weights (which stores detached tensors).
C7_UpdateAddsDeltasNoGrad ==
    (call.op = "update_weights" /\ ~(call.grad_enabled /\ cnv.W.requires_grad)) =>
        /\ ret.exc = "none"
        /\ LayerVals = <<AddSeq(call.W_before, call.dW), AddSeq(call.b_before, call.db)>>

\* C8: the layer's parameters are never aliased with tensors the caller
\* holds: a write by the caller leaves W and b unchanged, update_weights
\* leaves the caller's tensors unchanged, get_weights returns the current
\* values, set_weights stores the given values, and get_weights right after
\* set_weights(W1, b1) returns values equal to W1 and b1.
C8_NoAliasing ==
    [][ /\ (call'.op \in {"caller_write", "caller_new"} => LayerVals' = LayerVals)
        /\ (call'.op = "update_weights" => HeldVals' = HeldVals)
        /\ (call'.op = "get_weights" =>
               /\ LayerVals' = LayerVals
               /\ <<HeldVals'["W0"], HeldVals'["b0"]>> = LayerVals
               /\ Live(cnv', held') \cap {cnv'.W.st, cnv'.b.st}
                     \cap {held'[sl].st : sl \in Slots} = {})
        /\ (call'.op = "set_weights" =>
               /\ LayerVals' = <<HeldVals["W0"], HeldVals["b0"]>>
               /\ HeldVals' = HeldVals)
        /\ (call.op = "set_weights" /\ call'.op = "get_weights" =>
               <<HeldVals'["W0"], HeldVals'["b0"]>> = <<call.W, call.b>>)
      ]_vars

\* The caller holds W1, b1 that the layer was given or gave out, and a
\* successful update_weights has since moved the layer away from them.
C8_Witness ==
    /\ call.op = "update_weights"
    /\ ret.exc = "none"
    /\ held["W0"] # NoRef
    /\ held["b0"] # NoRef
    /\ LayerVals = <<AddSeq(HeldVals["W0"], call.dW), AddSeq(HeldVals["b0"], call.db)>>
    /\ LayerVals # <<HeldVals["W0"], HeldVals["b0"]>>

\* C10: forward on either layer changes neither W, b, pool_size, stride nor
\* the input; W and b change only in update_weights and set_weights, also
\* when the caller writes to a tensor that forward returned.
C10_ForwardIsPure ==
    [][ /\ (call'.op \in {"conv_forward", "pool_forward"} =>
               /\ cnv' = cnv
               /\ mpl' = mpl
               /\ LayerVals' = LayerVals
               /\ HeldVals'["x"] = HeldVals["x"]
               /\ held'["x"] = held["x"])
        /\ (call'.op \notin {"update_weights", "set_weights"} => LayerVals' = LayerVals)
        /\ mpl' = mpl
      ]_vars

\* The caller has overwritten an element of the tensor returned by a
\* convolution forward, which had computed a non-zero result.
C10_Witness ==
    /\ call.op = "caller_write"
    /\ call.slot = "out"
    /\ held["out"].shape = <<1, 1, 2, 1>>
    /\ \E k \in 1..Len(HeldVals["out"]) : HeldVals["out"][k] = 7
    /\ LayerVals[2] = <<BiasInit>>

====
